---- MODULE Spec2Model ----
(***************************************************************************)
(* A model of lotto_mapper.py: a Streamlit script that maps the blocks of  *)
(* a covering design onto the user's base numbers, scores the mapped       *)
(* blocks against a draw and sums the prizes.                              *)
(*                                                                         *)
(* Streamlit runs the whole script again on every widget interaction, so   *)
(* one action of the model is one interaction followed by one complete     *)
(* run of the script.  Texts are sequences of one-character strings.       *)
(***************************************************************************)
EXTENDS Integers, Sequences, FiniteSets, TLC

VARIABLES
    db,              \* coverings.db: the designs and their blocks (read only)
    outcome,         \* how the last script run ended
    errors,          \* the st.error / st.warning messages of the last run
    assigned,        \* the script's names bound during the last run
    selected, v_design,
    user_input, user_numbers, v,
    draw_input, draw_numbers,
    blocks, mapped_blocks, invalid_blocks,
    min_hits, hit_blocks, match_counter,
    jackpot_amount, six_hit_count,
    total_fixed, total_jackpot, grand_total, total_cost, net_profit,
    fn_args, fn_ret  \* a direct call of one helper function and its result

vars == <<db, outcome, errors, assigned, selected, v_design,
          user_input, user_numbers, v, draw_input, draw_numbers,
          blocks, mapped_blocks, invalid_blocks,
          min_hits, hit_blocks, match_counter,
          jackpot_amount, six_hit_count,
          total_fixed, total_jackpot, grand_total, total_cost, net_profit,
          fn_args, fn_ret>>

script_vars == <<db, outcome, errors, assigned, selected, v_design,
          user_input, user_numbers, v, draw_input, draw_numbers,
          blocks, mapped_blocks, invalid_blocks,
          min_hits, hit_blocks, match_counter,
          jackpot_amount, six_hit_count,
          total_fixed, total_jackpot, grand_total, total_cost, net_profit>>

---------------------------------------------------------------------------
(* Bounds of the model.                                                    *)

\* the most blocks the Blocks table holds for one design
MaxBlocks == 2
\* the longest description handed to get_v_from_description directly
MaxDescLen == 3
\* the longest base list and the longest block handed to map_user_numbers directly
MaxBaseLen == 3
MaxPosLen == 2

---------------------------------------------------------------------------
(* Python's str and int primitives, on sequences of characters.            *)

Digits == {"0", "1", "2", "3", "4", "5", "6", "7", "8", "9"}

DigitValue(c) ==
    CASE c = "0" -> 0 [] c = "1" -> 1 [] c = "2" -> 2 [] c = "3" -> 3
      [] c = "4" -> 4 [] c = "5" -> 5 [] c = "6" -> 6 [] c = "7" -> 7
      [] c = "8" -> 8 [] c = "9" -> 9

IsSpace(c) == c = " "

RECURSIVE lstrip(_)
lstrip(s) == IF s # <<>> /\ IsSpace(Head(s)) THEN lstrip(Tail(s)) ELSE s

RECURSIVE rstrip(_)
rstrip(s) ==
    IF s # <<>> /\ IsSpace(s[Len(s)]) THEN rstrip(SubSeq(s, 1, Len(s) - 1)) ELSE s

\* str.strip()
strip(s) == rstrip(lstrip(s))

\* str.split(","): the pieces between the commas, empty pieces kept
RECURSIVE split(_)
split(s) ==
    IF s = <<>> THEN << <<>> >>
    ELSE LET rest == split(Tail(s))
         IN  IF Head(s) = "," THEN << <<>> >> \o rest
             ELSE << <<Head(s)>> \o Head(rest) >> \o Tail(rest)

\* the value of a run of decimal digits
RECURSIVE DigitsValue(_)
DigitsValue(s) ==
    IF s = <<>> THEN 0
    ELSE 10 * DigitsValue(SubSeq(s, 1, Len(s) - 1)) + DigitValue(s[Len(s)])

AllDigits(s) == s # <<>> /\ \A i \in 1..Len(s) : s[i] \in Digits

\* int(x) of a str: surrounding blanks dropped, an optional sign, then digits;
\* anything else raises ValueError (ok = FALSE)
int(x) ==
    LET s    == strip(x)
        sign == s # <<>> /\ Head(s) \in {"+", "-"}
        body == IF sign THEN Tail(s) ELSE s
    IN  IF AllDigits(body)
        THEN [ok |-> TRUE,
              val |-> IF sign /\ Head(s) = "-" THEN 0 - DigitsValue(body)
                      ELSE DigitsValue(body)]
        ELSE [ok |-> FALSE, val |-> 0]

\* set(lst)
set(lst) == {lst[i] : i \in 1..Len(lst)}

\* sorted(S) of a set of integers: ascending
RECURSIVE sorted(_)
sorted(S) ==
    IF S = {} THEN <<>>
    ELSE LET m == CHOOSE x \in S : \A y \in S : x <= y
         IN  <<m>> \o sorted(S \ {m})

\* lst[idx] with Python's indexing: idx in -len..len-1, negative ones counted
\* from the end; anything else raises IndexError (ok = FALSE)
getitem(lst, idx) ==
    IF idx >= 0 /\ idx < Len(lst) THEN [ok |-> TRUE, val |-> lst[idx + 1]]
    ELSE IF idx < 0 /\ idx >= 0 - Len(lst)
         THEN [ok |-> TRUE, val |-> lst[Len(lst) + idx + 1]]
         ELSE [ok |-> FALSE, val |-> 0]

\* d.get(k, 0) of a dict d
get(d, k) == IF k \in DOMAIN d THEN d[k] ELSE 0

EmptyDict == [k \in {} |-> 0]

---------------------------------------------------------------------------
(* get_v_from_description                                                  *)

\* re.match(r"(\d+)", s).group(1): the longest run of digits s starts with
RECURSIVE LeadingDigits(_)
LeadingDigits(s) ==
    IF s # <<>> /\ Head(s) \in Digits THEN <<Head(s)>> \o LeadingDigits(Tail(s))
    ELSE <<>>

\* the regular expression (\d) in place of (\d+)
LeadingDigitOnly(s) ==
    IF s # <<>> /\ Head(s) \in Digits THEN <<Head(s)>> ELSE <<>>

re_match(s) == LeadingDigits(s)

get_v_from_description(description) ==
    LET match == re_match(description)
    IN  IF match # <<>>
        THEN [kind |-> "return", value |-> int(match).val]
        ELSE [kind |-> "raise ValueError", value |-> 0]

---------------------------------------------------------------------------
(* map_user_numbers                                                        *)

map_user_numbers(numbers, block) ==
    LET got == [k \in 1..Len(block) |-> getitem(numbers, block[k] - 1)]
    IN  IF \E k \in 1..Len(block) : ~got[k].ok
        THEN [kind |-> "None", value |-> <<>>]
        ELSE [kind |-> "list", value |-> [k \in 1..Len(block) |-> got[k].val]]

---------------------------------------------------------------------------
(* The design store, coverings.db.                                         *)

GoodDesc == <<"8", "N", "-", "3", "S">>
BadDesc == <<"N", "8">>

\* rows of the Blocks table: b1..b6, positions into the base list
BlockPool ==
    { <<1, 2, 3, 4, 5, 6>>,
      <<6, 5, 4, 3, 2, 1>>,
      <<7, 1, 1, 3, 4, 5>>,
      <<8, 1, 2, 3, 4, 5>>,
      <<0, 1, 2, 3, 4, 5>> }

BlockLists == UNION {[1..n -> BlockPool] : n \in 0..MaxBlocks}

\* the stores the script may be started on: an empty one, or one with two
\* designs (ORDER BY description puts "8N-3S" before "N8")
DBs ==
    {[designs |-> <<>>, blocks |-> [d \in {} |-> <<>>]]}
    \cup {[designs |-> <<GoodDesc, BadDesc>>,
           blocks |-> [d \in {GoodDesc, BadDesc} |-> IF d = GoodDesc THEN L ELSE <<>>]]
          : L \in BlockLists}

get_design_descriptions(d) == d.designs

get_blocks_by_description(d, description) ==
    IF description \notin DOMAIN d.blocks THEN <<>> ELSE d.blocks[description]

---------------------------------------------------------------------------
(* The texts the user may type into the two text inputs.                   *)

BaseTexts ==
    { <<>>,
      <<"1", ",", "2", ",", "3", ",", "4", ",", "5", ",", "6">>,
      <<"7", ",", " ", "1", ",", "2", ",", "3", ",", "4", ",", "5", ",", "9">>,
      <<"1", "0", ",", "2", "0", ",", "3", "0", ",", "4", "0", ",", "5", "0", ",",
        "6", "0", ",", "7", "0">>,
      <<"1", ",", "1", ",", "2", ",", "3", ",", "4", ",", "5">>,
      <<"1", ",", "2", ",", "3", ",", ",", "4", ",", "5", ",", "6", ",">>,
      <<"1", ",", "2", ",", "3", ",", "4", ",", "5">>,
      <<"1", ",", "2", ",", "x", ",", "4", ",", "5", ",", "6">>,
      <<"1", ",", "2", ",", "3", ",", "4", ",", "5", ",", "6", ".", "5">> }

DrawnDuplicate == <<"1", ",", "1", ",", "2", ",", "3", ",", "4", ",", "5">>

DrawTexts ==
    { <<>>,
      <<"1", ",", "2", ",", "3", ",", "4", ",", "5", ",", "6">>,
      <<"1", "0", ",", " ", "7", ",", "5", ",", "3", ",", "1", ",", "-", "2">>,
      DrawnDuplicate,
      <<"1", ",", "2", ",", "3", ",", "4", ",", "5", ",", "6", ",", "7">>,
      <<"1", ",", "2", ",", "3", ",", "4", ",", "5">>,
      <<"1", ",", "2", ",", "3", ",", "4", ",", "5", ",", "y">> }

DefaultMinHits == 1
DefaultJackpot == 30000000
JackpotStep == 1000000

\* st.number_input has no min_value: amounts below zero are accepted
JackpotInputs == {0 - JackpotStep, 0, DefaultJackpot}

---------------------------------------------------------------------------
(* The stages of the script.                                               *)

\* [int(x) for x in text.strip().split(",") if x.strip()]
ParseNumbers(text) ==
    LET toks == SelectSeq(split(strip(text)), LAMBDA x : strip(x) # <<>>)
        got  == [i \in 1..Len(toks) |-> int(toks[i])]
    IN  IF \E i \in 1..Len(toks) : ~got[i].ok
        THEN [ok |-> FALSE, val |-> <<>>]
        ELSE [ok |-> TRUE, val |-> [i \in 1..Len(toks) |-> got[i].val]]

MinBaseNumbers == 6

\* lines 81-89.  st.stop() raises inside the try, the bare except catches it,
\* shows the second message and stops again.
ValidateBase(text) ==
    LET p == ParseNumbers(text)
    IN  IF ~p.ok
        THEN [ok |-> FALSE, numbers |-> <<>>, bound |-> {},
              errors |-> <<"Invalid input format.">>]
        ELSE IF Len(p.val) < MinBaseNumbers
        THEN [ok |-> FALSE, numbers |-> p.val, bound |-> {"user_numbers", "v"},
              errors |-> <<"You must enter at least 6 numbers.",
                           "Invalid input format.">>]
        ELSE [ok |-> TRUE, numbers |-> p.val, bound |-> {"user_numbers", "v"},
              errors |-> <<>>]

DrawnSize == 6

\* a drawn-number check that only counts the entries
DrawnRejectedByLength(numbers) == Len(numbers) # DrawnSize

\* line 106
DrawnRejected(numbers) ==
    Len(numbers) # DrawnSize \/ Cardinality(set(numbers)) # DrawnSize

\* lines 104-111
ValidateDrawn(text) ==
    LET p == ParseNumbers(text)
    IN  IF ~p.ok
        THEN [ok |-> FALSE, numbers |-> <<>>, bound |-> {},
              errors |-> <<"Invalid drawn format.">>]
        ELSE IF DrawnRejected(p.val)
        THEN [ok |-> FALSE, numbers |-> p.val, bound |-> {"draw_numbers"},
              errors |-> <<"Must be exactly 6 unique drawn numbers.",
                           "Invalid drawn format.">>]
        ELSE [ok |-> TRUE, numbers |-> p.val, bound |-> {"draw_numbers"},
              errors |-> <<>>]

\* a position check that lets position 0 through
InRangeFromZero(i, n) == 0 <= i /\ i <= n

\* line 119: 1 <= i <= v
InRange(i, n) == 1 <= i /\ i <= n

\* lines 119-124, one pass of the loop body
MapStep(st, blk, numbers, n) ==
    IF \A k \in 1..Len(blk) : InRange(blk[k], n)
    THEN LET mapped == map_user_numbers(numbers, blk)
         IN  IF mapped.kind = "list" /\ mapped.value # <<>>
             THEN [st EXCEPT !.mapped_blocks = Append(@, mapped.value)]
             ELSE st
    ELSE [st EXCEPT !.invalid_blocks = Append(@, blk)]

\* lines 115-124
RECURSIVE MapLoop(_, _, _, _)
MapLoop(blks, numbers, n, upto) ==
    IF upto = 0 THEN [mapped_blocks |-> <<>>, invalid_blocks |-> <<>>]
    ELSE MapStep(MapLoop(blks, numbers, n, upto - 1), blks[upto], numbers, n)

\* hits taken from the block as a list, repeated values kept
HitsOfList(block, drawn) ==
    SelectSeq(block, LAMBDA x : x \in set(drawn))

\* line 143
HitsOf(block, drawn) == sorted(set(block) \cap set(drawn))

\* a display test that leaves out the blocks with exactly min_hits hits
ShownAbove(count, threshold) == count > threshold

\* line 145
Shown(count, threshold) == count >= threshold

\* a counter that is set, not incremented
CounterSet(counter, count) ==
    [k \in DOMAIN counter \cup {count} |->
        IF k = count THEN 1 ELSE counter[k]]

\* line 147
CounterAdd(counter, count) ==
    [k \in DOMAIN counter \cup {count} |->
        IF k = count THEN get(counter, count) + 1 ELSE counter[k]]

\* a loop body that counts only the blocks it displays
ScoreStepGated(st, i, block, drawn, threshold) ==
    LET hits  == HitsOf(block, drawn)
        count == Len(hits)
    IN  IF Shown(count, threshold)
        THEN [hit_blocks |-> Append(st.hit_blocks, <<i, block, hits>>),
              match_counter |-> CounterAdd(st.match_counter, count)]
        ELSE st

\* lines 143-147, one pass of the loop body
ScoreStep(st, i, block, drawn, threshold) ==
    LET hits  == HitsOf(block, drawn)
        count == Len(hits)
    IN  [hit_blocks |-> IF Shown(count, threshold)
                        THEN Append(st.hit_blocks, <<i, block, hits>>)
                        ELSE st.hit_blocks,
         match_counter |-> CounterAdd(st.match_counter, count)]

\* lines 139-147
RECURSIVE ScoreLoop(_, _, _, _)
ScoreLoop(mapped, drawn, threshold, upto) ==
    IF upto = 0 THEN [hit_blocks |-> <<>>, match_counter |-> EmptyDict]
    ELSE ScoreStep(ScoreLoop(mapped, drawn, threshold, upto - 1),
                   upto, mapped[upto], drawn, threshold)

\* lines 157-161
prize_table == (5 :> 24000) @@ (4 :> 800) @@ (3 :> 20)

\* line 170
ticket_price == 20

RECURSIVE SumOver(_, _)
SumOver(keys, counter) ==
    IF keys = {} THEN 0
    ELSE LET k == CHOOSE x \in keys : TRUE
         IN  get(counter, k) * prize_table[k] + SumOver(keys \ {k}, counter)

\* line 166
TotalFixed(counter) == SumOver(DOMAIN prize_table, counter)

\* a grand total that takes the jackpot off
GrandTotalMinus(fixed, jackpot) == fixed - jackpot

\* line 168
GrandTotal(fixed, jackpot) == fixed + jackpot

\* a cost charged for every block fetched, the skipped ones too
TotalCostOfFetched(n_mapped, n_invalid) == (n_mapped + n_invalid) * ticket_price

\* lines 171-172
TotalCost(n_mapped, n_invalid) == n_mapped * ticket_price

\* lines 165-173
PrizeSummary(counter, jackpot, n_mapped, n_invalid) ==
    LET six     == get(counter, 6)
        fixed   == TotalFixed(counter)
        jack    == six * jackpot
        grand   == GrandTotal(fixed, jack)
        cost    == TotalCost(n_mapped, n_invalid)
    IN  [six_hit_count |-> six, total_fixed |-> fixed, total_jackpot |-> jack,
         grand_total |-> grand, total_cost |-> cost, net_profit |-> grand - cost]

---------------------------------------------------------------------------
(* One run of the script, top to bottom.                                   *)

\* What the names hold when a run does not reach them.  A widget the run
\* does not render loses its value: it shows its default when next rendered.
Unreached ==
    [outcome |-> "not run", errors |-> <<>>, assigned |-> {},
     selected |-> <<>>, v_design |-> 0,
     user_input |-> <<>>, user_numbers |-> <<>>, v |-> 0,
     draw_input |-> <<>>, draw_numbers |-> <<>>,
     blocks |-> <<>>, mapped_blocks |-> <<>>, invalid_blocks |-> <<>>,
     min_hits |-> DefaultMinHits, hit_blocks |-> <<>>, match_counter |-> EmptyDict,
     jackpot_amount |-> DefaultJackpot, six_hit_count |-> 0,
     total_fixed |-> 0, total_jackpot |-> 0, grand_total |-> 0,
     total_cost |-> 0, net_profit |-> 0]

\* lines 113-173: from the fetch of the blocks to the prize summary
Evaluate(r, d, w) ==
    LET blks   == get_blocks_by_description(d, r.selected)
        m      == MapLoop(blks, r.user_numbers, r.v, Len(blks))
        sc     == ScoreLoop(m.mapped_blocks, r.draw_numbers, w.min_hits,
                            Len(m.mapped_blocks))
        pz     == PrizeSummary(sc.match_counter, w.jackpot_amount,
                               Len(m.mapped_blocks), Len(m.invalid_blocks))
    IN  [r EXCEPT !.outcome = "done",
                  !.errors = IF m.invalid_blocks # <<>>
                             THEN <<"Skipped blocks (index out of range for base set).">>
                             ELSE <<>>,
                  !.assigned = @ \cup {"blocks", "mapped_blocks", "invalid_blocks",
                                       "min_hits", "hit_blocks", "match_counter",
                                       "jackpot_amount", "six_hit_count", "total_fixed",
                                       "total_jackpot", "grand_total", "total_cost",
                                       "net_profit"},
                  !.blocks = blks,
                  !.mapped_blocks = m.mapped_blocks,
                  !.invalid_blocks = m.invalid_blocks,
                  !.min_hits = w.min_hits,
                  !.hit_blocks = sc.hit_blocks,
                  !.match_counter = sc.match_counter,
                  !.jackpot_amount = w.jackpot_amount,
                  !.six_hit_count = pz.six_hit_count,
                  !.total_fixed = pz.total_fixed,
                  !.total_jackpot = pz.total_jackpot,
                  !.grand_total = pz.grand_total,
                  !.total_cost = pz.total_cost,
                  !.net_profit = pz.net_profit]

\* lines 91-111, then the rest
FromDrawn(r, d, w) ==
    LET vd == ValidateDrawn(w.draw_input)
        r1 == [r EXCEPT !.draw_input = w.draw_input,
                        !.draw_numbers = vd.numbers,
                        !.assigned = @ \cup {"draw_input"} \cup vd.bound]
    IN  IF ~vd.ok
        THEN [r1 EXCEPT !.outcome = "stopped: drawn numbers", !.errors = vd.errors]
        ELSE Evaluate(r1, d, w)

\* lines 76-89, then the rest
FromBase(r, d, w) ==
    LET vb == ValidateBase(w.user_input)
        r1 == [r EXCEPT !.user_input = w.user_input,
                        !.user_numbers = vb.numbers,
                        !.v = Len(vb.numbers),
                        !.assigned = @ \cup {"user_input"} \cup vb.bound]
    IN  IF ~vb.ok
        THEN [r1 EXCEPT !.outcome = "stopped: base numbers", !.errors = vb.errors]
        ELSE FromDrawn(r1, d, w)

\* lines 57-65, then the rest.  w holds the values of the widgets.
Run(d, w) ==
    LET designs == get_design_descriptions(d)
    IN  IF designs = <<>>
        THEN [Unreached EXCEPT !.outcome = "stopped: no designs",
                               !.errors = <<"No covering designs found.">>,
                               !.assigned = {"designs"}]
        ELSE LET got == get_v_from_description(w.selected)
                 r1  == [Unreached EXCEPT !.selected = w.selected,
                                          !.assigned = {"designs", "selected"}]
             IN  IF got.kind # "return"
                 THEN [r1 EXCEPT !.outcome = "exception: ValueError"]
                 ELSE FromBase([r1 EXCEPT !.v_design = got.value,
                                          !.assigned = @ \cup {"v_design"}], d, w)

\* the values the widgets hold now
Widgets ==
    [selected |-> selected, user_input |-> user_input, draw_input |-> draw_input,
     min_hits |-> min_hits, jackpot_amount |-> jackpot_amount]

\* the values the widgets hold in a new session (st.selectbox shows the
\* first option)
FirstWidgets(d) ==
    [selected |-> IF d.designs = <<>> THEN <<>> ELSE d.designs[1],
     user_input |-> <<>>, draw_input |-> <<>>,
     min_hits |-> DefaultMinHits, jackpot_amount |-> DefaultJackpot]

NotCalled == [kind |-> "not called", value |-> <<>>]

\* the script's names after a run that ended as r
Becomes(r) ==
    /\ outcome' = r.outcome
    /\ errors' = r.errors
    /\ assigned' = r.assigned
    /\ selected' = r.selected
    /\ v_design' = r.v_design
    /\ user_input' = r.user_input
    /\ user_numbers' = r.user_numbers
    /\ v' = r.v
    /\ draw_input' = r.draw_input
    /\ draw_numbers' = r.draw_numbers
    /\ blocks' = r.blocks
    /\ mapped_blocks' = r.mapped_blocks
    /\ invalid_blocks' = r.invalid_blocks
    /\ min_hits' = r.min_hits
    /\ hit_blocks' = r.hit_blocks
    /\ match_counter' = r.match_counter
    /\ jackpot_amount' = r.jackpot_amount
    /\ six_hit_count' = r.six_hit_count
    /\ total_fixed' = r.total_fixed
    /\ total_jackpot' = r.total_jackpot
    /\ grand_total' = r.grand_total
    /\ total_cost' = r.total_cost
    /\ net_profit' = r.net_profit

Holds(r) ==
    /\ outcome = r.outcome
    /\ errors = r.errors
    /\ assigned = r.assigned
    /\ selected = r.selected
    /\ v_design = r.v_design
    /\ user_input = r.user_input
    /\ user_numbers = r.user_numbers
    /\ v = r.v
    /\ draw_input = r.draw_input
    /\ draw_numbers = r.draw_numbers
    /\ blocks = r.blocks
    /\ mapped_blocks = r.mapped_blocks
    /\ invalid_blocks = r.invalid_blocks
    /\ min_hits = r.min_hits
    /\ hit_blocks = r.hit_blocks
    /\ match_counter = r.match_counter
    /\ jackpot_amount = r.jackpot_amount
    /\ six_hit_count = r.six_hit_count
    /\ total_fixed = r.total_fixed
    /\ total_jackpot = r.total_jackpot
    /\ grand_total = r.grand_total
    /\ total_cost = r.total_cost
    /\ net_profit = r.net_profit

\* the first run of a session
Init ==
    /\ db \in DBs
    /\ \E r \in {Run(db, FirstWidgets(db))} : Holds(r)
    /\ fn_args = <<>>
    /\ fn_ret = NotCalled

\* the user changes one widget the last run rendered; the script runs again
Interact(w) ==
    /\ \E r \in {Run(db, w)} : Becomes(r)
    /\ UNCHANGED <<db, fn_args, fn_ret>>

\* line 62
ChooseDesign ==
    \E d \in set(get_design_descriptions(db)) :
        /\ "selected" \in assigned
        /\ d # selected
        /\ Interact([Widgets EXCEPT !.selected = d])

\* lines 76-79
TypeBase ==
    \E t \in BaseTexts :
        /\ "user_input" \in assigned
        /\ t # user_input
        /\ Interact([Widgets EXCEPT !.user_input = t])

\* lines 92-95
TypeDrawn ==
    \E t \in DrawTexts :
        /\ "draw_input" \in assigned
        /\ t # draw_input
        /\ Interact([Widgets EXCEPT !.draw_input = t])

\* line 135
MoveSlider ==
    \E m \in 0..6 :
        /\ "min_hits" \in assigned
        /\ m # min_hits
        /\ Interact([Widgets EXCEPT !.min_hits = m])

\* line 163
SetJackpot ==
    \E j \in JackpotInputs :
        /\ "jackpot_amount" \in assigned
        /\ j # jackpot_amount
        /\ Interact([Widgets EXCEPT !.jackpot_amount = j])

Next == ChooseDesign \/ TypeBase \/ TypeDrawn \/ MoveSlider \/ SetJackpot

Spec == Init /\ [][Next]_vars

---------------------------------------------------------------------------
(* The helper functions called on their own.                               *)

\* the script's names before any run
Idle ==
    /\ db = [designs |-> <<>>, blocks |-> [d \in {} |-> <<>>]]
    /\ Holds(Unreached)

DescAlphabet == {"0", "1", "5", "8", "N", "-"}

DescExamples ==
    { <<"8", "N", "-", "3", "S">>,
      <<"0", "8", "-", "0", "6", "-", "0", "3">>,
      <<"1", "5", "N", "-", "3", "S">> }

Descriptions ==
    UNION {[1..n -> DescAlphabet] : n \in 0..MaxDescLen} \cup DescExamples

InitDesc ==
    /\ Idle
    /\ fn_args \in Descriptions
    /\ fn_ret = NotCalled

\* lines 9-15
CallGetV ==
    /\ fn_ret.kind = "not called"
    /\ fn_ret' = get_v_from_description(fn_args)
    /\ UNCHANGED <<script_vars, fn_args>>

NextDesc == CallGetV

SpecDesc == InitDesc /\ [][NextDesc]_vars

Positions == (0 - MaxBaseLen - 1)..(MaxBaseLen + 1)

BaseLists ==
    {[i \in 1..n |-> 10 * i] : n \in 1..MaxBaseLen} \cup {<<10, 20, 30, 40, 50, 60>>}

PositionLists ==
    UNION {[1..n -> Positions] : n \in 0..MaxPosLen} \cup BlockPool

InitMap ==
    /\ Idle
    /\ fn_args \in [numbers : BaseLists, block : PositionLists]
    /\ fn_ret = NotCalled

\* lines 45-50
CallMap ==
    /\ fn_ret.kind = "not called"
    /\ fn_ret' = map_user_numbers(fn_args.numbers, fn_args.block)
    /\ UNCHANGED <<script_vars, fn_args>>

NextMap == CallMap

SpecMap == InitMap /\ [][NextMap]_vars

---------------------------------------------------------------------------
(* The properties.                                                         *)

Done == outcome = "done"

Values(s) == {s[k] : k \in 1..Len(s)}

\* the values mapped block i shares with the draw
Common(i) == Values(mapped_blocks[i]) \cap Values(draw_numbers)

HitCount(i) == Cardinality(Common(i))

Ascending(s) == \A a, b \in 1..Len(s) : a < b => s[a] < s[b]

RECURSIVE SumValues(_)
SumValues(d) ==
    IF DOMAIN d = {} THEN 0
    ELSE LET k == CHOOSE x \in DOMAIN d : TRUE
         IN  d[k] + SumValues([x \in DOMAIN d \ {k} |-> d[x]])

\* C1: two consecutive evaluations of the same mapped blocks, drawn numbers
\* and jackpot amount give the same histogram and the same prize figures,
\* whatever the two values of min_hits are.
C1_ThresholdIndependence ==
    [][ ( /\ outcome = "done" /\ outcome' = "done"
          /\ mapped_blocks' = mapped_blocks
          /\ draw_numbers' = draw_numbers
          /\ jackpot_amount' = jackpot_amount )
        => ( /\ match_counter' = match_counter
             /\ total_fixed' = total_fixed
             /\ total_jackpot' = total_jackpot
             /\ grand_total' = grand_total
             /\ total_cost' = total_cost
             /\ net_profit' = net_profit ) ]_vars

\* the slider has been moved off its default, the list shown is filtered and
\* a prize is won
C1_Witness ==
    /\ Done
    /\ min_hits # DefaultMinHits
    /\ Len(hit_blocks) < Len(mapped_blocks)
    /\ grand_total > 0

\* C2: after the scoring loop the histogram's values sum to the number of
\* mapped blocks, and its keys are hit counts in 0..6.
C2_HistogramTotality ==
    Done => /\ SumValues(match_counter) = Len(mapped_blocks)
            /\ DOMAIN match_counter \subseteq 0..6

\* nothing is shown at the highest threshold, yet two blocks are counted
C2_Witness ==
    /\ Done
    /\ min_hits = 6
    /\ hit_blocks = <<>>
    /\ Len(mapped_blocks) >= 2

ValidIdx ==
    {i \in 1..Len(blocks) :
        \A k \in 1..Len(blocks[i]) : blocks[i][k] >= 1 /\ blocks[i][k] <= v}

InvalidIdx == (1..Len(blocks)) \ ValidIdx

Rank(S, i) == Cardinality({j \in S : j <= i})

\* C3: every design block is accounted for once: those with all positions in
\* 1..v are in mapped_blocks, in order, position p replaced by
\* user_numbers[p - 1] (0-based); the others are in invalid_blocks, in order;
\* the evaluation goes on to the end.
C3_MappingBounds ==
    Done =>
        /\ v = Len(user_numbers)
        /\ Len(mapped_blocks) = Cardinality(ValidIdx)
        /\ Len(invalid_blocks) = Cardinality(InvalidIdx)
        /\ Len(mapped_blocks) + Len(invalid_blocks) = Len(blocks)
        /\ \A i \in ValidIdx :
              LET mb == mapped_blocks[Rank(ValidIdx, i)]
              IN  /\ Len(mb) = Len(blocks[i])
                  /\ \A k \in 1..Len(mb) : mb[k] = user_numbers[blocks[i][k]]
        /\ \A i \in InvalidIdx : invalid_blocks[Rank(InvalidIdx, i)] = blocks[i]

\* base 10,20,..,70 and the block 8,1,2,3,4,5 followed by a block in range
C3_Witness ==
    /\ Done
    /\ user_numbers = <<10, 20, 30, 40, 50, 60, 70>>
    /\ Len(blocks) = 2
    /\ blocks[1] = <<8, 1, 2, 3, 4, 5>>
    /\ invalid_blocks = <<blocks[1]>>
    /\ Len(mapped_blocks) = 1

\* C4: the hits recorded for a block are the values it shares with the draw,
\* once each and ascending; the hit count is the size of that intersection,
\* which is what the histogram counts.
C4_IntersectionCorrectness ==
    Done =>
        /\ \A e \in 1..Len(hit_blocks) :
              LET blk  == hit_blocks[e][2]
                  hits == hit_blocks[e][3]
              IN  /\ Ascending(hits)
                  /\ Values(hits) = Values(blk) \cap Values(draw_numbers)
                  /\ Len(hits) = Cardinality(Values(blk) \cap Values(draw_numbers))
                  /\ Len(hits) \in 0..6
        /\ \A n \in 0..6 :
              get(match_counter, n)
                = Cardinality({i \in 1..Len(mapped_blocks) : HitCount(i) = n})

\* a mapped block holds a drawn value twice
C4_Witness ==
    /\ Done
    /\ \E e \in 1..Len(hit_blocks) :
          \E a, b \in 1..Len(hit_blocks[e][2]) :
              /\ a < b
              /\ hit_blocks[e][2][a] = hit_blocks[e][2][b]
              /\ hit_blocks[e][2][a] \in Values(hit_blocks[e][3])

\* C5: the prize figures are the stated sums and products of the histogram,
\* the prize table, the jackpot amount and the ticket price; only mapped
\* blocks are charged; histogram {3:2, 4:1} with 10 blocks at the default
\* jackpot comes out as 840, 0, 840, 200, 640.
C5_PrizeArithmetic ==
    /\ Done =>
          /\ total_fixed = get(match_counter, 3) * 20 + get(match_counter, 4) * 800
                           + get(match_counter, 5) * 24000
          /\ six_hit_count = get(match_counter, 6)
          /\ total_jackpot = get(match_counter, 6) * jackpot_amount
          /\ grand_total = total_fixed + total_jackpot
          /\ total_cost = Len(mapped_blocks) * 20
          /\ net_profit = grand_total - total_cost
    /\ PrizeSummary((3 :> 2) @@ (4 :> 1), 30000000, 10, 0)
         = [six_hit_count |-> 0, total_fixed |-> 840, total_jackpot |-> 0,
            grand_total |-> 840, total_cost |-> 200, net_profit |-> 640]

\* a fixed prize is won by the one mapped block while another block was skipped
C5_Witness ==
    /\ Done
    /\ total_fixed > 0
    /\ invalid_blocks # <<>>
    /\ Len(mapped_blocks) = 1
    /\ total_cost = 20

\* the entries of a comma-separated text: its pieces that are not blank
Entries(text) == SelectSeq(split(text), LAMBDA x : \E k \in 1..Len(x) : x[k] # " ")

\* an optional sign and one or more digits, blanks around them allowed
IsIntegerToken(t) ==
    LET s == strip(t)
    IN  \E k \in 0..1 :
          /\ Len(s) > k
          /\ k = 1 => s[1] \in {"+", "-"}
          /\ \A i \in (k + 1)..Len(s) : s[i] \in Digits

AllIntegers(text) == \A k \in 1..Len(Entries(text)) : IsIntegerToken(Entries(text)[k])

BaseBad(text) == Len(Entries(text)) < 6 \/ ~AllIntegers(text)

DrawBad(text) ==
    \/ ~AllIntegers(text)
    \/ Len(Entries(text)) # 6
    \/ \E a, b \in 1..Len(Entries(text)) :
          a < b /\ int(Entries(text)[a]).val = int(Entries(text)[b]).val

NothingEvaluated ==
    assigned \cap {"blocks", "mapped_blocks", "invalid_blocks", "hit_blocks",
                   "match_counter", "six_hit_count", "total_fixed", "total_jackpot",
                   "grand_total", "total_cost", "net_profit"} = {}

\* C6: a base text with fewer than 6 entries or an entry that is no integer,
\* and a drawn text that is not 6 distinct integers, end the run with an
\* error before any block is fetched, scored or prized; a run that scores
\* has at least 6 base numbers and exactly 6 distinct drawn numbers.
C6_FailFast ==
    /\ ("user_input" \in assigned /\ BaseBad(user_input))
          => /\ outcome = "stopped: base numbers"
             /\ errors # <<>>
             /\ NothingEvaluated
    /\ ("draw_input" \in assigned /\ DrawBad(draw_input))
          => /\ outcome = "stopped: drawn numbers"
             /\ errors # <<>>
             /\ NothingEvaluated
    /\ "match_counter" \in assigned
          => /\ Len(user_numbers) >= 6
             /\ Len(draw_numbers) = 6
             /\ Cardinality(Values(draw_numbers)) = 6

\* the drawn text 1,1,2,3,4,5 is rejected
C6_Witness ==
    /\ draw_input = DrawnDuplicate
    /\ "draw_input" \in assigned
    /\ outcome = "stopped: drawn numbers"
    /\ errors # <<>>

RECURSIVE Pow10(_)
Pow10(n) == IF n = 0 THEN 1 ELSE 10 * Pow10(n - 1)

StartsWithDigit(s) == s # <<>> /\ s[1] \in Digits

\* the length of the longest run of digits s starts with
RunLength(s) ==
    CHOOSE k \in 0..Len(s) :
        /\ \A i \in 1..k : s[i] \in Digits
        /\ k < Len(s) => s[k + 1] \notin Digits

RECURSIVE PlaceSum(_, _, _)
PlaceSum(s, k, i) ==
    IF i > k THEN 0 ELSE DigitValue(s[i]) * Pow10(k - i) + PlaceSum(s, k, i + 1)

\* C7: get_v_from_description returns the value of the longest leading run of
\* decimal digits, and raises for a description that starts with no digit.
C7_DescriptionParsing ==
    fn_ret.kind # "not called" =>
        /\ StartsWithDigit(fn_args)
              => /\ fn_ret.kind = "return"
                 /\ fn_ret.value = PlaceSum(fn_args, RunLength(fn_args), 1)
        /\ ~StartsWithDigit(fn_args) => fn_ret.kind = "raise ValueError"
        /\ fn_args = <<"8", "N", "-", "3", "S">> => fn_ret.value = 8
        /\ fn_args = <<"0", "8", "-", "0", "6", "-", "0", "3">> => fn_ret.value = 8
        /\ fn_args = <<"1", "5", "N", "-", "3", "S">> => fn_ret.value = 15

\* "15N-3S" has been parsed
C7_Witness ==
    /\ fn_args = <<"1", "5", "N", "-", "3", "S">>
    /\ fn_ret.kind = "return"

\* C8 as stated: the four figures are never negative, whatever the jackpot
\* input holds.
C8_AllNonNegative ==
    Done => /\ total_fixed >= 0
            /\ total_jackpot >= 0
            /\ grand_total >= 0
            /\ total_cost >= 0

\* C8 amended: total_fixed and total_cost are never negative; total_jackpot
\* and grand_total are not negative when the jackpot amount is not; with a
\* negative amount total_jackpot is negative exactly when a block has 6 hits.
C8_NonNegativeForNonNegativeJackpot ==
    Done => /\ total_fixed >= 0
            /\ total_cost >= 0
            /\ jackpot_amount >= 0 => (total_jackpot >= 0 /\ grand_total >= 0)
            /\ jackpot_amount < 0 => (total_jackpot < 0 <=> six_hit_count > 0)

\* a jackpot is won at a positive amount
C8_Witness ==
    /\ Done
    /\ jackpot_amount > 0
    /\ six_hit_count > 0
    /\ total_jackpot > 0

\* C9 as stated: map_user_numbers returns None exactly when some position is
\* outside 1..v.
C9_MapperEnforcesBound ==
    fn_ret.kind # "not called" =>
        LET n   == Len(fn_args.numbers)
            bad == \E k \in 1..Len(fn_args.block) :
                      fn_args.block[k] < 1 \/ fn_args.block[k] > n
        IN  /\ bad => fn_ret.kind = "None"
            /\ fn_ret.kind = "list" => ~bad

\* C10: hit_blocks lists the mapped blocks with at least min_hits hits, in
\* order, each with its 1-based index in mapped_blocks, its numbers and its
\* hits; at min_hits = 0 it lists every mapped block.
C10_DisplayFilter ==
    Done =>
        /\ {hit_blocks[e][1] : e \in 1..Len(hit_blocks)}
             = {i \in 1..Len(mapped_blocks) : HitCount(i) >= min_hits}
        /\ \A e, f \in 1..Len(hit_blocks) : e < f => hit_blocks[e][1] < hit_blocks[f][1]
        /\ \A e \in 1..Len(hit_blocks) :
              LET i == hit_blocks[e][1]
              IN  /\ i \in 1..Len(mapped_blocks)
                  /\ hit_blocks[e][2] = mapped_blocks[i]
                  /\ Values(hit_blocks[e][3]) = Common(i)
        /\ min_hits = 0 => /\ Len(hit_blocks) = Len(mapped_blocks)
                           /\ Len(hit_blocks) = SumValues(match_counter)

\* only the second of two mapped blocks reaches the threshold
C10_Witness ==
    /\ Done
    /\ min_hits > 0
    /\ Len(mapped_blocks) = 2
    /\ Len(hit_blocks) = 1
    /\ hit_blocks[1][1] = 2

====
